---- MODULE Spec2Model ----
(***************************************************************************)
(* A model of gbfs_rs: reading of GBFS archives (header, directory, lookup *)
(* by name, iteration, reinterpretation of payloads).                      *)
(*                                                                         *)
(* Bytes are naturals 0..255.  A buffer (&[u8]) is a sequence of bytes;    *)
(* Rust indexes from 0, so data[i] of the source is data[i + 1] here.      *)
(* A Rust panic is the outcome [kind |-> "Panic"]; a panic ends the run.   *)
(* usize is taken as wide enough for dir_off + i * 32 and for              *)
(* data_offset + len: a u16 plus 65535 * 32 fits 32 bits, and where        *)
(* data_offset + len exceeds 32 bits the slice expression panics in every  *)
(* build (overflow check, or a wrapped end below the start), which is the  *)
(* outcome the unbounded sum gives here as well.                           *)
(***************************************************************************)
EXTENDS Naturals, Sequences, FiniteSets, TLC

VARIABLES data, base, fs, cfs, last, iter, yielded, nextRet, panicked

vars == <<data, base, fs, cfs, last, iter, yielded, nextRet, panicked>>

(***************************************************************************)
(* Program constants.                                                      *)
(***************************************************************************)
FILENAME_LEN == 24
DIR_ENTRY_LEN == 32
NUM_FS_ENTRIES == 2048
NUM_CONST_FS_ENTRIES == 2048
GBFS_HEADER_LENGTH == 32

\* "PinEightGBFS\r\n\x1a\n"
MAGIC == <<80, 105, 110, 69, 105, 103, 104, 116, 71, 66, 70, 83, 13, 10, 26, 10>>

(***************************************************************************)
(* Outcomes.                                                               *)
(***************************************************************************)
NotConstructed == [kind |-> "None"]
Panic(why) == [kind |-> "Panic", why |-> why]
Err(e) == [kind |-> "Err", err |-> e]

\* data[i] of the source, for an index the caller has checked to be in bounds
At(d, i) == d[i + 1]

\* data[a .. b] of the source: the bytes at indices a, ..., b - 1
Slice(d, a, b) == SubSeq(d, a + 1, b)

u16_from_le_bytes(b0, b1) == b0 + 256 * b1

u32_from_le_bytes(b0, b1, b2, b3) == b0 + 256 * b1 + 65536 * b2 + 16777216 * b3

(***************************************************************************)
(* header.rs: GBFSHeader::from_slice over the 32 header bytes.             *)
(***************************************************************************)
RECURSIVE MagicMatches(_, _)
\* the first while loop: the index of the first byte that differs ends it
MagicMatches(h, i) ==
    IF i < 16
    THEN IF At(h, i) # At(MAGIC, i) THEN FALSE ELSE MagicMatches(h, i + 1)
    ELSE TRUE

RECURSIVE ReservedZero(_, _)
\* the second while loop, over the reserved bytes 24..31
ReservedZero(h, i) ==
    IF i < 32
    THEN IF At(h, i) # 0 THEN FALSE ELSE ReservedZero(h, i + 1)
    ELSE TRUE

\* GBFSHeader::from_slice without the loop over the reserved bytes
GBFSHeader_from_slice_reserved_unchecked(h) ==
    IF ~MagicMatches(h, 0) THEN Err([tag |-> "HeaderInvalid"])
    ELSE [kind |-> "Ok",
          hdr |-> [total_len |-> u32_from_le_bytes(At(h, 16), At(h, 17), At(h, 18), At(h, 19)),
                   dir_off |-> u16_from_le_bytes(At(h, 20), At(h, 21)),
                   dir_num_members |-> u16_from_le_bytes(At(h, 22), At(h, 23))]]

GBFSHeader_from_slice(h) ==
    IF ~MagicMatches(h, 0) THEN Err([tag |-> "HeaderInvalid"])
    ELSE LET total_len == u32_from_le_bytes(At(h, 16), At(h, 17), At(h, 18), At(h, 19))
             dir_off == u16_from_le_bytes(At(h, 20), At(h, 21))
             dir_num_members == u16_from_le_bytes(At(h, 22), At(h, 23))
         IN IF ~ReservedZero(h, 24) THEN Err([tag |-> "HeaderInvalid"])
            ELSE [kind |-> "Ok",
                  hdr |-> [total_len |-> total_len, dir_off |-> dir_off,
                           dir_num_members |-> dir_num_members]]

(***************************************************************************)
(* lib.rs: GBFSFilesystem::from_slice.  The directory array                *)
(* [Option<GBFSFileEntry>; NUM_FS_ENTRIES] starts all None; it is kept as  *)
(* the function from the slots written Some to their entries, every other  *)
(* slot below the capacity being None.                                     *)
(***************************************************************************)
EmptyDir == [s \in {} |-> 0]

\* the record at entry_start, read field by field (the reads are in bounds)
ReadEntry(d, entry_start) ==
    [name |-> Slice(d, entry_start, entry_start + FILENAME_LEN),
     len |-> u32_from_le_bytes(At(d, entry_start + FILENAME_LEN),
                               At(d, entry_start + FILENAME_LEN + 1),
                               At(d, entry_start + FILENAME_LEN + 2),
                               At(d, entry_start + FILENAME_LEN + 3)),
     data_offset |-> u32_from_le_bytes(At(d, entry_start + FILENAME_LEN + 4),
                                       At(d, entry_start + FILENAME_LEN + 5),
                                       At(d, entry_start + FILENAME_LEN + 6),
                                       At(d, entry_start + FILENAME_LEN + 7))]

EntryStart(hdr, i) == hdr.dir_off + i * DIR_ENTRY_LEN

\* the state of the while loop after the last iteration that ran
LoopState(hdr, dir_entries) == [kind |-> "Ok", hdr |-> hdr, dir |-> dir_entries]

\* LoopBody writing the entry one slot further than its index
LoopBody_next_slot(d, st, i) ==
    LET entry_start == EntryStart(st.hdr, i)
    IN IF entry_start + DIR_ENTRY_LEN > Len(d)
       THEN Panic("index out of bounds: data")
       ELSE IF i + 1 >= NUM_FS_ENTRIES
       THEN Panic("index out of bounds: dir_entries")
       ELSE LoopState(st.hdr, ((i + 1) :> ReadEntry(d, entry_start)) @@ st.dir)

\* one iteration of the while loop of from_slice, for index i: the 32 reads,
\* then the write of slot i
LoopBody(d, st, i) ==
    LET entry_start == EntryStart(st.hdr, i)
    IN IF entry_start + DIR_ENTRY_LEN > Len(d)
       THEN Panic("index out of bounds: data")
       ELSE IF i >= NUM_FS_ENTRIES
       THEN Panic("index out of bounds: dir_entries")
       ELSE LoopState(st.hdr, (i :> ReadEntry(d, entry_start)) @@ st.dir)

RECURSIVE ReadDirectory(_, _, _, _)
\* the iterations lo, lo + 1, ..., hi - 1 of the while loop, in that order, from
\* the state st; a panic ends the loop.  The range is halved rather than
\* peeled one index at a time, which keeps the evaluation shallow.
ReadDirectory(d, st, lo, hi) ==
    IF st.kind = "Panic" \/ lo >= hi THEN st
    ELSE IF hi = lo + 1 THEN LoopBody(d, st, lo)
    ELSE LET mid == lo + ((hi - lo) \div 2)
             left == ReadDirectory(d, st, lo, mid)
         IN ReadDirectory(d, left, mid, hi)

from_slice(d) ==
    IF Len(d) < GBFS_HEADER_LENGTH THEN Panic("index out of bounds: data")
    ELSE LET h == GBFSHeader_from_slice(Slice(d, 0, GBFS_HEADER_LENGTH))
         IN IF h.kind = "Err" THEN h
            ELSE ReadDirectory(d, LoopState(h.hdr, EmptyDir), 0, h.hdr.dir_num_members)

(***************************************************************************)
(* constfs.rs: const_fs.  It uses the decoded header as a header, without  *)
(* a case for a header that failed to decode; an archive whose header is   *)
(* not valid is a fatal parse error, so no filesystem comes out of it.     *)
(***************************************************************************)
const_fs_header(h) == IF h.kind = "Err" THEN Panic("invalid header") ELSE h

\* ConstReadEntry with the length read where the offset is, and the offset
\* where the length is
ConstReadEntry_fields_swapped(d, entry_start) ==
    [name |-> [backing |-> Slice(d, entry_start, entry_start + FILENAME_LEN)],
     len |-> u32_from_le_bytes(At(d, entry_start + FILENAME_LEN + 4),
                               At(d, entry_start + FILENAME_LEN + 5),
                               At(d, entry_start + FILENAME_LEN + 6),
                               At(d, entry_start + FILENAME_LEN + 7)),
     data_offset |-> u32_from_le_bytes(At(d, entry_start + FILENAME_LEN),
                                       At(d, entry_start + FILENAME_LEN + 1),
                                       At(d, entry_start + FILENAME_LEN + 2),
                                       At(d, entry_start + FILENAME_LEN + 3))]

\* the record at entry_start as const_fs reads it: the name is a Filename
ConstReadEntry(d, entry_start) ==
    [name |-> [backing |-> Slice(d, entry_start, entry_start + FILENAME_LEN)],
     len |-> u32_from_le_bytes(At(d, entry_start + FILENAME_LEN),
                               At(d, entry_start + FILENAME_LEN + 1),
                               At(d, entry_start + FILENAME_LEN + 2),
                               At(d, entry_start + FILENAME_LEN + 3)),
     data_offset |-> u32_from_le_bytes(At(d, entry_start + FILENAME_LEN + 4),
                                       At(d, entry_start + FILENAME_LEN + 5),
                                       At(d, entry_start + FILENAME_LEN + 6),
                                       At(d, entry_start + FILENAME_LEN + 7))]

\* one iteration of the while loop of const_fs, for index i
ConstLoopBody(d, st, i) ==
    LET entry_start == st.hdr.dir_off + i * DIR_ENTRY_LEN
    IN IF entry_start + DIR_ENTRY_LEN > Len(d)
       THEN Panic("index out of bounds: data")
       ELSE IF i >= NUM_CONST_FS_ENTRIES
       THEN Panic("index out of bounds: dir_entries")
       ELSE LoopState(st.hdr, (i :> ConstReadEntry(d, entry_start)) @@ st.dir)

RECURSIVE ConstReadDirectory(_, _, _, _)
\* the iterations lo, ..., hi - 1 of the while loop of const_fs, in that order
ConstReadDirectory(d, st, lo, hi) ==
    IF st.kind = "Panic" \/ lo >= hi THEN st
    ELSE IF hi = lo + 1 THEN ConstLoopBody(d, st, lo)
    ELSE LET mid == lo + ((hi - lo) \div 2)
             left == ConstReadDirectory(d, st, lo, mid)
         IN ConstReadDirectory(d, left, mid, hi)

const_fs(d) ==
    IF Len(d) < GBFS_HEADER_LENGTH THEN Panic("index out of bounds: data")
    ELSE LET h == const_fs_header(GBFSHeader_from_slice(Slice(d, 0, GBFS_HEADER_LENGTH)))
         IN IF h.kind = "Panic" THEN h
            ELSE ConstReadDirectory(d, LoopState(h.hdr, EmptyDir), 0, h.hdr.dir_num_members)

(***************************************************************************)
(* Names.  Filename::try_from_utf8 accepts a byte string of at most 24     *)
(* bytes that is well-formed UTF-8.                                        *)
(***************************************************************************)
IsCont(b) == b >= 128 /\ b <= 191

RECURSIVE IsUtf8(_)
IsUtf8(s) ==
    IF s = <<>> THEN TRUE
    ELSE LET b == s[1]
             n == Len(s)
         IN IF b < 128 THEN IsUtf8(Tail(s))
            ELSE IF b >= 194 /\ b <= 223
            THEN n >= 2 /\ IsCont(s[2]) /\ IsUtf8(SubSeq(s, 3, n))
            ELSE IF b >= 224 /\ b <= 239
            THEN /\ n >= 3
                 /\ IsCont(s[2])
                 /\ (b = 224 => s[2] >= 160)
                 /\ (b = 237 => s[2] <= 159)
                 /\ IsCont(s[3])
                 /\ IsUtf8(SubSeq(s, 4, n))
            ELSE IF b >= 240 /\ b <= 244
            THEN /\ n >= 4
                 /\ IsCont(s[2])
                 /\ (b = 240 => s[2] >= 144)
                 /\ (b = 244 => s[2] <= 143)
                 /\ IsCont(s[3])
                 /\ IsCont(s[4])
                 /\ IsUtf8(SubSeq(s, 5, n))
            ELSE FALSE

\* self.name.iter().filter(|x| **x != 0): every byte that is not NUL, in order
NoNulls(raw) == SelectSeq(raw, LAMBDA x : x # 0)

\* GBFSFileEntry::name_is_equal
name_is_equal(entry, name) ==
    LET no_nulls == NoNulls(entry.name)
    IN IF ~IsUtf8(no_nulls) THEN Err([tag |-> "InvalidFilenameError"])
       ELSE [kind |-> "Ok", val |-> (name = no_nulls)]

\* file.rs, Filename::as_string: the unwrap panics on a name that is not UTF-8
as_string(backing) ==
    LET no_nulls == NoNulls(backing)
    IN IF ~IsUtf8(no_nulls) THEN Panic("unwrap on Err") ELSE [kind |-> "Ok", val |-> no_nulls]

(***************************************************************************)
(* Lookups on a constructed filesystem f = [hdr, dir] over the buffer d.   *)
(* A returned slice is its place in the buffer and the bytes there.        *)
(***************************************************************************)
\* get_file_data_by_index with the slice data[data_offset .. len]: the length
\* taken for the end of the range
get_file_data_by_index_len_as_end(d, f, index) ==
    IF index >= NUM_FS_ENTRIES THEN Panic("index out of bounds: dir")
    ELSE IF index \notin DOMAIN f.dir THEN Panic("Attempt to access file with nonexistent index")
    ELSE LET dir_entry == f.dir[index]
             start == dir_entry.data_offset
         IN IF dir_entry.len > Len(d) \/ start > dir_entry.len
            THEN Panic("slice index out of range")
            ELSE [kind |-> "Ok", index |-> index, offset |-> start,
                  bytes |-> Slice(d, start, dir_entry.len)]

get_file_data_by_index(d, f, index) ==
    IF index >= NUM_FS_ENTRIES THEN Panic("index out of bounds: dir")
    ELSE IF index \notin DOMAIN f.dir THEN Panic("Attempt to access file with nonexistent index")
    ELSE LET dir_entry == f.dir[index]
             start == dir_entry.data_offset
         IN \* start + len > data.len(), written without the sum
            IF start > Len(d) \/ dir_entry.len > Len(d) - start
            THEN Panic("slice index out of range")
            ELSE [kind |-> "Ok", index |-> index, offset |-> start,
                  bytes |-> Slice(d, start, start + dir_entry.len)]

RECURSIVE ScanByName(_, _, _, _)
\* the for loop of get_file_data_by_name from slot i on
ScanByName(d, f, name, i) ==
    IF i >= NUM_FS_ENTRIES THEN Err([tag |-> "NoSuchFile", name |-> name])
    ELSE IF i \notin DOMAIN f.dir THEN Err([tag |-> "NoSuchFile", name |-> name])
    ELSE LET eq == name_is_equal(f.dir[i], name)
         IN IF eq.kind = "Err" THEN eq
            ELSE IF eq.val THEN get_file_data_by_index(d, f, i)
            ELSE ScanByName(d, f, name, i + 1)

get_file_data_by_name(d, f, name) == ScanByName(d, f, name, 0)

\* byte_slice_cast's as_slice_of::<T>() for a T of `size` bytes, on the slice at
\* address addr: an empty slice casts to an empty slice; otherwise the address
\* must be aligned to T and the length a multiple of its size.  The elements
\* are read in the byte order of the target, which is little-endian on ARM
\* (the GBA) and on x86.
RECURSIVE Chunks(_, _)
Chunks(bytes, size) ==
    IF Len(bytes) < size THEN <<>>
    ELSE <<SubSeq(bytes, 1, size)>> \o Chunks(SubSeq(bytes, size + 1, Len(bytes)), size)

RECURSIVE FromLe(_)
FromLe(chunk) == IF chunk = <<>> THEN 0 ELSE Head(chunk) + 256 * FromLe(Tail(chunk))

RECURSIVE FromBe(_)
FromBe(chunk) ==
    IF chunk = <<>> THEN 0
    ELSE chunk[Len(chunk)] + 256 * FromBe(SubSeq(chunk, 1, Len(chunk) - 1))

as_slice_of(addr, bytes, size) ==
    IF bytes = <<>> THEN [kind |-> "Ok", elems |-> <<>>]
    ELSE IF addr % size # 0 THEN Err([tag |-> "AlignmentMismatch"])
    ELSE IF Len(bytes) % size # 0 THEN Err([tag |-> "LengthMismatch"])
    ELSE LET cs == Chunks(bytes, size)
         IN [kind |-> "Ok", elems |-> [k \in 1..Len(cs) |-> FromLe(cs[k])]]

\* get_file_data_by_name_as_u16_slice (size 2) and _as_u32_slice (size 4)
get_file_data_by_name_as_slice(d, addr, f, name, size) ==
    IF Len(d) % size # 0
    THEN Err([tag |-> "FileLengthNotMultipleOf", multiple |-> size, length |-> Len(d)])
    ELSE LET r == get_file_data_by_name(d, f, name)
         IN IF r.kind # "Ok" THEN r
            ELSE LET cast == as_slice_of(addr + r.offset, r.bytes, size)
                 IN IF cast.kind = "Err" THEN Panic("unwrap on Err")
                    ELSE [kind |-> "Ok", index |-> r.index, elems |-> cast.elems]

get_file_data_by_name_as_u16_slice(d, addr, f, name) ==
    get_file_data_by_name_as_slice(d, addr, f, name, 2)

get_file_data_by_name_as_u32_slice(d, addr, f, name) ==
    get_file_data_by_name_as_slice(d, addr, f, name, 4)

\* file.rs, File::to_u16_vec (size 2) and File::to_u32_vec (size 4)
to_vec(bytes, size) ==
    IF Len(bytes) % size # 0 THEN Panic("length not divisible")
    ELSE LET cs == Chunks(bytes, size)
         IN [kind |-> "Ok", elems |-> [k \in 1..Len(cs) |-> FromBe(cs[k])]]

to_u16_vec(bytes) == to_vec(bytes, 2)

to_u32_vec(bytes) == to_vec(bytes, 4)

(***************************************************************************)
(* Buffers the model opens.                                                *)
(***************************************************************************)
MaxEntries == 2

LE16(n) == <<n % 256, (n \div 256) % 256>>

LE32(n) == <<n % 256, (n \div 256) % 256, (n \div 65536) % 256, (n \div 16777216) % 256>>

Zeros(n) == [i \in 1..n |-> 0]

Pad(name) == name \o Zeros(FILENAME_LEN - Len(name))

MkHeader(total, dirOff, count) ==
    MAGIC \o LE32(total) \o LE16(dirOff) \o LE16(count) \o Zeros(8)

MkEntry(e, payloadStart) == Pad(e.name) \o LE32(e.len) \o LE32(payloadStart + e.rel)

RECURSIVE MkDirectory(_, _)
MkDirectory(es, payloadStart) ==
    IF es = <<>> THEN <<>>
    ELSE MkEntry(Head(es), payloadStart) \o MkDirectory(Tail(es), payloadStart)

Payload(n) == [i \in 1..n |-> 16 + i]

\* header, padding up to the directory at dirOff, directory, payloads
ArchiveAt(dirOff, es, payloadLen) ==
    LET payloadStart == dirOff + DIR_ENTRY_LEN * Len(es)
    IN MkHeader(payloadStart + payloadLen, dirOff, Len(es))
       \o Zeros(dirOff - GBFS_HEADER_LENGTH)
       \o MkDirectory(es, payloadStart) \o Payload(payloadLen)

Archive(es, payloadLen) == ArchiveAt(GBFS_HEADER_LENGTH, es, payloadLen)

Name_ab == <<97, 98>>
Name_abcd == <<97, 98, 99, 100>>
Name_ab0cd == <<97, 98, 0, 99, 100>>
Name_bad == <<97, 255>>
\* 24 bytes without a NUL: twelve times U+00E9 in UTF-8
Name_full == [i \in 1..FILENAME_LEN |-> IF i % 2 = 1 THEN 195 ELSE 169]
Name_zz == <<122, 122>>

EntryChoices ==
    { [name |-> Name_ab, len |-> 2, rel |-> 0],
      [name |-> Name_abcd, len |-> 3, rel |-> 1],
      [name |-> Name_ab0cd, len |-> 4, rel |-> 0],
      [name |-> Name_bad, len |-> 1, rel |-> 0],
      [name |-> Name_full, len |-> 4, rel |-> 1],
      [name |-> Name_ab, len |-> 0, rel |-> 2] }

Directories == UNION { [1..n -> EntryChoices] : n \in 0..MaxEntries }

PayloadLens == {4, 5}

Archives == { Archive(es, p) : es \in Directories, p \in PayloadLens }

BaseArchive ==
    Archive(<<[name |-> Name_ab, len |-> 2, rel |-> 0],
              [name |-> Name_abcd, len |-> 3, rel |-> 1]>>, 4)

Truncated == { SubSeq(BaseArchive, 1, n) : n \in {0, 10, 31, 32, 63, 64, 95, 96, 98} }

Flipped == { [BaseArchive EXCEPT ![p] = (@ + 1) % 256] : p \in 1..GBFS_HEADER_LENGTH }

\* a directory of one entry more than the capacity, every record inside the buffer
Oversized ==
    LET count == NUM_FS_ENTRIES + 1
        len == GBFS_HEADER_LENGTH + DIR_ENTRY_LEN * count
        rec == MkEntry([name |-> Name_ab, len |-> 0, rel |-> 0], 0)
    IN MkHeader(len, GBFS_HEADER_LENGTH, count)
       \o [i \in 1..(DIR_ENTRY_LEN * count) |-> rec[((i - 1) % DIR_ENTRY_LEN) + 1]]

\* a directory that does not follow the header at once: dir_off = 300
Gapped == { ArchiveAt(300, <<e>>, 4) : e \in {x \in EntryChoices : x.len = 2} }

Buffers == Archives \cup Truncated \cup Flipped \cup Gapped \cup {Oversized}

BaseAddrs == {0, 1}

Init ==
    /\ data \in Buffers
    /\ base \in BaseAddrs
    /\ fs = NotConstructed
    /\ cfs = NotConstructed
    /\ last = [kind |-> "None"]
    /\ iter = [kind |-> "None"]
    /\ yielded = <<>>
    /\ nextRet = "none"
    /\ panicked = FALSE

FromSlice ==
    /\ ~panicked
    /\ fs = NotConstructed
    /\ fs' = from_slice(data)
    /\ panicked' = (fs'.kind = "Panic")
    /\ UNCHANGED <<data, base, cfs, last, iter, yielded, nextRet>>

\* const_fs is evaluated when the program is built, before anything runs
ConstFs ==
    /\ fs = NotConstructed
    /\ cfs = NotConstructed
    /\ cfs' = const_fs(data)
    /\ UNCHANGED <<data, base, fs, last, iter, yielded, nextRet, panicked>>

Opened == ~panicked /\ fs.kind = "Ok"

Returned(op, name, ret) == [kind |-> "Ret", op |-> op, name |-> name, ret |-> ret]

Call(op, name, ret) ==
    /\ last' = Returned(op, name, ret)
    /\ panicked' = (ret.kind = "Panic")
    /\ UNCHANGED <<data, base, fs, cfs, iter, yielded, nextRet>>

GetFileDataByName(name) ==
    /\ Opened
    /\ Call("by_name", name, get_file_data_by_name(data, fs, name))

GetFileDataByNameAsU16Slice(name) ==
    /\ Opened
    /\ Call("as_u16", name, get_file_data_by_name_as_u16_slice(data, base, fs, name))

GetFileDataByNameAsU32Slice(name) ==
    /\ Opened
    /\ Call("as_u32", name, get_file_data_by_name_as_u32_slice(data, base, fs, name))

\* File::to_u16_vec / to_u32_vec on the file a lookup by name has just returned
HasFile == last.kind = "Ret" /\ last.op = "by_name" /\ last.ret.kind = "Ok"

ToU16Vec ==
    /\ Opened
    /\ HasFile
    /\ Call("to_u16_vec", last.name, to_u16_vec(last.ret.bytes))

ToU32Vec ==
    /\ Opened
    /\ HasFile
    /\ Call("to_u32_vec", last.name, to_u32_vec(last.ret.bytes))

\* IntoIterator::into_iter
IntoIter ==
    /\ Opened
    /\ iter' = [kind |-> "Iter", next_file_index |-> 0]
    /\ yielded' = <<>>
    /\ nextRet' = "none"
    /\ UNCHANGED <<data, base, fs, cfs, last, panicked>>

\* GBFSFilesystemIterator::next taking the entry out of its slot as it yields it
IterNext_taking_entry ==
    /\ Opened
    /\ iter.kind = "Iter"
    /\ IF iter.next_file_index < fs.hdr.dir_num_members
       THEN LET ret == get_file_data_by_index(data, fs, iter.next_file_index)
            IN IF ret.kind = "Panic"
               THEN /\ panicked' = TRUE
                    /\ nextRet' = "Panic"
                    /\ UNCHANGED <<iter, yielded, fs>>
               ELSE /\ yielded' = Append(yielded, ret)
                    /\ iter' = [iter EXCEPT !.next_file_index = @ + 1]
                    /\ nextRet' = "Some"
                    /\ fs' = [fs EXCEPT !.dir = [s \in DOMAIN fs.dir \ {iter.next_file_index}
                                                    |-> fs.dir[s]]]
                    /\ UNCHANGED panicked
       ELSE /\ nextRet' = "None"
            /\ UNCHANGED <<iter, yielded, panicked, fs>>
    /\ UNCHANGED <<data, base, cfs, last>>

\* GBFSFilesystemIterator::next
IterNext ==
    /\ Opened
    /\ iter.kind = "Iter"
    /\ IF iter.next_file_index < fs.hdr.dir_num_members
       THEN LET ret == get_file_data_by_index(data, fs, iter.next_file_index)
            IN IF ret.kind = "Panic"
               THEN /\ panicked' = TRUE
                    /\ nextRet' = "Panic"
                    /\ UNCHANGED <<iter, yielded>>
               ELSE /\ yielded' = Append(yielded, ret)
                    /\ iter' = [iter EXCEPT !.next_file_index = @ + 1]
                    /\ nextRet' = "Some"
                    /\ UNCHANGED panicked
       ELSE /\ nextRet' = "None"
            /\ UNCHANGED <<iter, yielded, panicked>>
    /\ UNCHANGED <<data, base, fs, cfs, last>>

QueryNames == {Name_ab, Name_abcd, Name_full, Name_zz}

Next ==
    \/ FromSlice
    \/ ConstFs
    \/ \E name \in QueryNames : GetFileDataByName(name)
    \/ \E name \in QueryNames : GetFileDataByNameAsU16Slice(name)
    \/ \E name \in QueryNames : GetFileDataByNameAsU32Slice(name)
    \/ ToU16Vec
    \/ ToU32Vec
    \/ IntoIter
    \/ IterNext

Spec == Init /\ [][Next]_vars

(***************************************************************************)
(* The archive as the format lays it out, read from the bytes directly.    *)
(***************************************************************************)
Min(S) == CHOOSE x \in S : \A y \in S : x <= y

HeaderValid(d) ==
    /\ Len(d) >= 32
    /\ SubSeq(d, 1, 16) = <<80, 105, 110, 69, 105, 103, 104, 116, 71, 66, 70, 83, 13, 10, 26, 10>>
    /\ \A k \in 25..32 : d[k] = 0

RawTotalLen(d) == d[17] + d[18] * 256 + d[19] * 256 * 256 + d[20] * 256 * 256 * 256

RawDirOff(d) == d[21] + d[22] * 256

RawCount(d) == d[23] + d[24] * 256

RawStart(d, i) == RawDirOff(d) + i * 32

RawFits(d, i) == RawStart(d, i) + 32 <= Len(d)

RawName(d, i) == SubSeq(d, RawStart(d, i) + 1, RawStart(d, i) + 24)

RawField(d, at) == d[at + 1] + d[at + 2] * 256 + d[at + 3] * 256 * 256 + d[at + 4] * 256 * 256 * 256

RawLen(d, i) == RawField(d, RawStart(d, i) + 24)

RawOffset(d, i) == RawField(d, RawStart(d, i) + 28)

RawPayloadInside(d, i) == RawOffset(d, i) <= Len(d) /\ RawLen(d, i) <= Len(d) - RawOffset(d, i)

\* the name a raw name field holds: its bytes before the first NUL
UpToNul(raw) ==
    LET nuls == {k \in 1..Len(raw) : raw[k] = 0}
    IN IF nuls = {} THEN raw ELSE SubSeq(raw, 1, Min(nuls) - 1)

NulPadded(raw) == \A k \in 1..Len(raw) : raw[k] = 0 => \A l \in k..Len(raw) : raw[l] = 0

\* a well-formed archive: valid header, no more entries than the directory
\* holds, every record and payload inside the buffer, names NUL-padded, valid
\* UTF-8 and pairwise different
WellFormed(d) ==
    /\ HeaderValid(d)
    /\ RawCount(d) <= NUM_FS_ENTRIES
    /\ \A i \in 0..(RawCount(d) - 1) :
          /\ RawFits(d, i)
          /\ RawPayloadInside(d, i)
          /\ NulPadded(RawName(d, i))
          /\ IsUtf8(UpToNul(RawName(d, i)))
    /\ \A i, j \in 0..(RawCount(d) - 1) :
          i # j => UpToNul(RawName(d, i)) # UpToNul(RawName(d, j))

ByName == last.kind = "Ret" /\ last.op = "by_name"

(***************************************************************************)
(* C1: from_slice returns an error value for every buffer; it never        *)
(* panics, and a buffer shorter than the header or than its directory is   *)
(* answered with an error.                                                 *)
(***************************************************************************)
C1_FromSliceNeverPanics ==
    fs.kind # "None" =>
        /\ fs.kind # "Panic"
        /\ (Len(data) < 32 \/ (HeaderValid(data)
                               /\ \E i \in 0..(RawCount(data) - 1) : ~RawFits(data, i)))
              => fs.kind = "Err"

(***************************************************************************)
(* C2: on a well-formed archive the open succeeds, and the lookup of the   *)
(* name of any directory entry succeeds with exactly the bytes             *)
(* data[data_offset .. data_offset + length] of that entry, the file being *)
(* the one of the queried name.                                            *)
(***************************************************************************)
C2_RoundTrip ==
    WellFormed(data) =>
        /\ fs.kind # "None" => fs.kind = "Ok"
        /\ ByName =>
              \A i \in 0..(RawCount(data) - 1) :
                  UpToNul(RawName(data, i)) = last.name =>
                      /\ last.ret.kind = "Ok"
                      /\ last.ret.offset = RawOffset(data, i)
                      /\ last.ret.bytes = SubSeq(data, RawOffset(data, i) + 1,
                                                 RawOffset(data, i) + RawLen(data, i))
                      /\ as_string(fs.dir[last.ret.index].name)
                            = [kind |-> "Ok", val |-> last.name]

C2_Witness ==
    /\ WellFormed(data)
    /\ RawCount(data) = 2
    /\ ByName
    /\ last.name = UpToNul(RawName(data, 1))
    /\ last.ret.kind = "Ok"
    /\ Len(last.ret.bytes) = 3

(***************************************************************************)
(* C3: a lookup by name or an iteration step that reaches an entry whose   *)
(* data_offset + length exceeds the buffer length ends with an error       *)
(* value: whatever a lookup returns that is not an error is a file inside  *)
(* the buffer, and no step of an iteration panics.                         *)
(***************************************************************************)
C3_OutOfBoundsPayloadIsError ==
    /\ (ByName /\ last.ret.kind # "Err") =>
          /\ last.ret.kind = "Ok"
          /\ RawPayloadInside(data, last.ret.index)
    /\ nextRet # "Panic"

(***************************************************************************)
(* C4: an archive whose header declares more entries than the directory    *)
(* holds is rejected at construction with TooManyEntries(capacity,         *)
(* requested), by from_slice and by const_fs.                              *)
(***************************************************************************)
C4_TooManyEntriesRejected ==
    (HeaderValid(data) /\ RawCount(data) > 2048) =>
        /\ fs.kind # "None" =>
              /\ fs.kind = "Err"
              /\ fs.err = [tag |-> "TooManyEntries", capacity |-> 2048,
                           requested |-> RawCount(data)]
        /\ cfs.kind # "None" =>
              /\ cfs.kind = "Err"
              /\ cfs.err = [tag |-> "TooManyEntries", capacity |-> 2048,
                            requested |-> RawCount(data)]

(***************************************************************************)
(* C5: on a buffer of at least 32 bytes, from_slice fails with the header  *)
(* error exactly when bytes 0-15 are not the magic or one of bytes 24-31   *)
(* is not zero; a filesystem it returns has total_len, dir_off and         *)
(* dir_num_members equal to the little-endian values of bytes 16-19, 20-21 *)
(* and 22-23.                                                              *)
(***************************************************************************)
C5_HeaderDecoding ==
    (fs.kind # "None" /\ Len(data) >= 32) =>
        /\ (fs.kind = "Err" /\ fs.err.tag = "HeaderInvalid") <=> ~HeaderValid(data)
        /\ fs.kind = "Ok" =>
              /\ fs.hdr.total_len = RawTotalLen(data)
              /\ fs.hdr.dir_off = RawDirOff(data)
              /\ fs.hdr.dir_num_members = RawCount(data)

C5_Witness ==
    /\ fs.kind = "Err"
    /\ SubSeq(data, 1, 31) = SubSeq(BaseArchive, 1, 31)
    /\ data[32] # 0

(***************************************************************************)
(* C6: a lookup by name returns the first entry, in directory order, whose *)
(* name equals the query, and NoSuchFile carrying the query when no entry  *)
(* has that name.                                                          *)
(***************************************************************************)
C6_FirstMatchOrNoSuchFile ==
    (ByName /\ fs.kind = "Ok") =>
        LET matches == {i \in DOMAIN fs.dir : UpToNul(fs.dir[i].name) = last.name}
        IN IF matches = {}
           THEN /\ last.ret.kind = "Err"
                /\ last.ret.err = [tag |-> "NoSuchFile", name |-> last.name]
           ELSE /\ last.ret.kind = "Ok"
                /\ last.ret.index = Min(matches)

(***************************************************************************)
(* C7: an iteration over a filesystem of N entries yields the payloads of  *)
(* the entries 0, 1, ..., N - 1 in this order, and None only after all N.  *)
(***************************************************************************)
C7_IterationYieldsEveryEntry ==
    (fs.kind = "Ok" /\ iter.kind = "Iter") =>
        /\ nextRet # "Panic"
        /\ Len(yielded) = iter.next_file_index
        /\ Len(yielded) <= RawCount(data)
        /\ nextRet = "None" => Len(yielded) = RawCount(data)
        /\ \A k \in 1..Len(yielded) :
              /\ yielded[k].offset = RawOffset(data, k - 1)
              /\ yielded[k].bytes = SubSeq(data, RawOffset(data, k - 1) + 1,
                                           RawOffset(data, k - 1) + RawLen(data, k - 1))

(***************************************************************************)
(* C8: the reinterpretation of a file as 16-bit or 32-bit elements gives   *)
(* payload length / element size elements when the payload length of the   *)
(* file looked up is a multiple of the element size, and an error value    *)
(* otherwise; it never panics.                                             *)
(***************************************************************************)
C8_CastChecksPayloadLength ==
    /\ (last.kind = "Ret" /\ last.op \in {"as_u16", "as_u32"}) =>
          LET size == IF last.op = "as_u16" THEN 2 ELSE 4
              file == get_file_data_by_name(data, fs, last.name)
          IN file.kind = "Ok" =>
                IF Len(file.bytes) % size = 0
                THEN /\ last.ret.kind = "Ok"
                     /\ Len(last.ret.elems) * size = Len(file.bytes)
                ELSE last.ret.kind = "Err"
    /\ (last.kind = "Ret" /\ last.op \in {"to_u16_vec", "to_u32_vec"}) =>
          last.ret.kind # "Panic"

(***************************************************************************)
(* C9: const_fs and from_slice agree: where from_slice returns a           *)
(* filesystem, const_fs returns one of the same header and the same        *)
(* entries in the same slots, so lookups by name give the same on both;    *)
(* where from_slice returns none, const_fs returns none.                   *)
(***************************************************************************)
ConstEntryView(e) == [name |-> e.name.backing, len |-> e.len, data_offset |-> e.data_offset]

ConstView(c) == [kind |-> "Ok", hdr |-> c.hdr, dir |-> [i \in DOMAIN c.dir |-> ConstEntryView(c.dir[i])]]

C10_NameEndsAtFirstNul ==
    (ByName /\ last.ret.kind = "Ok") =>
        UpToNul(fs.dir[last.ret.index].name) = last.name

(***************************************************************************)
(* C11: the directory is decoded when the filesystem is opened: an archive *)
(* with a directory entry whose name is not valid UTF-8 is rejected by     *)
(* from_slice with an error, so that no lookup by name on an opened        *)
(* filesystem returns a name-decode error, and a lookup of the name of an  *)
(* entry finds a file whatever the names before it are.                    *)
(***************************************************************************)
RawDirectoryInside(d) ==
    /\ HeaderValid(d)
    /\ RawCount(d) <= NUM_FS_ENTRIES
    /\ \A i \in 0..(RawCount(d) - 1) : RawFits(d, i)

C11_NamesDecodedAtOpen ==
    /\ (fs.kind # "None" /\ RawDirectoryInside(data)
        /\ \E i \in 0..(RawCount(data) - 1) : ~IsUtf8(UpToNul(RawName(data, i))))
          => fs.kind = "Err"
    /\ (ByName /\ last.ret.kind = "Err") => last.ret.err.tag # "InvalidFilenameError"
    /\ (ByName /\ fs.kind = "Ok"
        /\ \E i \in DOMAIN fs.dir : fs.dir[i].name = Pad(last.name))
          => last.ret.kind # "Err"

(***************************************************************************)
(* C12: a constructed filesystem never changes.  Every step leaves the     *)
(* header, the directory and the buffer as they are, and what a lookup by  *)
(* name returned is what it returns after any later steps; an iterator     *)
(* changes                                                                 *)
(* only by advancing next_file_index by one or by being replaced with a    *)
(* fresh one at entry 0, an iterator on which next has not been called is  *)
(* at entry 0, and a call of next leaves everything but the iterator alone.*)
(***************************************************************************)
C12_Step ==
    /\ fs.kind = "Ok" =>
          /\ fs' = fs
          /\ data' = data
    /\ iter' # iter =>
          /\ iter'.kind = "Iter"
          /\ \/ iter'.next_file_index = 0
             \/ /\ iter.kind = "Iter"
                /\ iter'.next_file_index = iter.next_file_index + 1
    /\ (iter'.kind = "Iter" /\ nextRet' = "none") => iter'.next_file_index = 0
    /\ (nextRet' # "none" /\ (nextRet' # nextRet \/ iter' # iter)) =>
          /\ fs' = fs
          /\ cfs' = cfs
          /\ data' = data
          /\ base' = base
          /\ last' = last

\* what the last lookup by name returned is what the same lookup returns now
C12_SameLookup ==
    (ByName /\ fs.kind = "Ok") => last.ret = get_file_data_by_name(data, fs, last.name)

C12_ImmutableAndRestartable == [][C12_Step]_vars /\ []C12_SameLookup

C12_Witness ==
    /\ fs.kind = "Ok"
    /\ fs.hdr.dir_num_members = 2
    /\ ByName
    /\ last.ret.kind = "Ok"
    /\ iter.kind = "Iter"
    /\ iter.next_file_index = 2
    /\ nextRet = "None"

(***************************************************************************)
(* C13: in a filesystem a construction has returned, the slots             *)
(* 0 .. entry_count - 1 of the directory are occupied and every slot from  *)
(* entry_count on is empty.  So a lookup that ends with NoSuchFile has     *)
(* compared the query with every entry and found none equal, and           *)
(* get_file_data_by_index finds an entry at every index below entry_count, *)
(* which are the indices the iterator passes.                              *)
(***************************************************************************)
OccupiedPrefix(f, capacity) ==
    /\ f.hdr.dir_num_members <= capacity
    /\ \A slot \in DOMAIN f.dir : slot < f.hdr.dir_num_members
    /\ \A slot \in 0..(f.hdr.dir_num_members - 1) : slot \in DOMAIN f.dir

C13_OccupiedPrefixInvariant ==
    /\ fs.kind = "Ok" =>
          /\ OccupiedPrefix(fs, NUM_FS_ENTRIES)
          /\ \A index \in 0..(fs.hdr.dir_num_members - 1) :
                LET ret == get_file_data_by_index(data, fs, index)
                IN ret.kind = "Panic" => ret.why = "slice index out of range"
          /\ (ByName /\ last.ret.kind = "Err" /\ last.ret.err.tag = "NoSuchFile") =>
                \A index \in 0..(fs.hdr.dir_num_members - 1) :
                    name_is_equal(fs.dir[index], last.name) = [kind |-> "Ok", val |-> FALSE]
          /\ iter.kind = "Iter" => iter.next_file_index <= fs.hdr.dir_num_members
    /\ cfs.kind = "Ok" => OccupiedPrefix(cfs, NUM_CONST_FS_ENTRIES)

C13_Witness ==
    /\ fs.kind = "Ok"
    /\ fs.hdr.dir_num_members = 2
    /\ DOMAIN fs.dir = {0, 1}
    /\ ByName
    /\ last.ret.kind = "Err"
    /\ last.ret.err.tag = "NoSuchFile"
    /\ iter.kind = "Iter"
    /\ iter.next_file_index = 2

====
